---- MODULE Spec2Model ----
(***************************************************************************)
(* Tensaero: frame/coordinate tagged vector and matrix algebra             *)
(* (Core/State.py), the bounded key cache (Utilities/Cache.py), the Geoid  *)
(* Earth-orientation cache (Earth/EarthState.py) and the integrators       *)
(* (Core/Solvers.py).                                                      *)
(*                                                                         *)
(* Python objects are records with a "kind" field naming their class; a    *)
(* raised exception is a record [exc |-> <class name>].  Floating-point    *)
(* data is modelled by integers (exact arithmetic).                        *)
(***************************************************************************)
EXTENDS Integers, Sequences, FiniteSets, TLC

VARIABLES
    \* ---- frame algebra: a call sequence on drawn operands ----
    args,           \* the operands of the calls (vectors and/or matrices)
    ops,            \* the operations applied so far, in order
    out,            \* what the last operation returned (a value or an exception)
    \* ---- Cache (Utilities/Cache.py) ----
    cache,          \* [max_size, queue, ordering]: the Cache object's fields
    lastOp,         \* the last call made on the cache and what it saw
    everInserted,   \* keys that add() has been called with (history)
    ascending,      \* TRUE while every add() so far used a key above all earlier ones
    \* ---- EarthStateGeoid (Earth/EarthState.py) ----
    provider_calls, \* gcrs_to_itrs_angular_vel calls made so far, by TT date
    lastQuery,      \* the last transformation_matrix / angular_velocity query
    run,            \* the current run of consecutive queries at one TT time
    \* ---- solvers (Core/Solvers.py) ----
    solver,         \* the body's solver: its class and its two injected callables
    time_step,      \* the step every next_state is called with (config.time_step)
    state,          \* the body's current StateFrame (BaseObject.state)
    initial,        \* the StateFrame the body started with (history)
    steps,          \* number of next_state results installed so far
    calls,          \* the callbacks the last next_state made, in order
    ret,            \* what the last next_state returned (a StateFrame or an exception)
    \* ---- BaseObject (SimObjects/SimObjects.py) ----
    raw,            \* the arguments of a new_state call: time, position, velocity
    built,          \* what that new_state call did and returned (or raised)
    v_bi_g,         \* the argument of flight_path_angles_from_geographic
    angles,         \* the pair that call returned: heading, flight-path angle
    \* ---- Simulator (Simulator.py) ----
    config,         \* the validated configuration (Simulator.config)
    sim_objects,    \* Simulator._sim_objects: name -> the body's current StateFrame
    solvers,        \* Simulator._solvers: name -> the solver class of the body
    pc,             \* where the Simulator is: constructing, constructed, running, ...
    jd_tt,          \* the clock of run()
    jd_tt_start,    \* the clock value run() started with
    time_max,       \* the argument of run()
    iterations,     \* iterations of the while loop of run() completed so far
    raised          \* the exception that ended the constructor or run(), if any

vars == <<args, ops, out, cache, lastOp, everInserted, ascending,
          provider_calls, lastQuery, run,
          solver, time_step, state, initial, steps, calls, ret,
          raw, built, v_bi_g, angles,
          config, sim_objects, solvers, pc, jd_tt, jd_tt_start, time_max,
          iterations, raised>>

algVars    == <<args, ops, out>>
cacheVars  == <<cache, lastOp, everInserted, ascending>>
earthVars  == <<provider_calls, lastQuery, run>>
solverVars == <<solver, time_step, state, initial, steps, calls, ret>>
objVars    == <<raw, built, v_bi_g, angles>>
simVars    == <<config, sim_objects, solvers, pc, jd_tt, jd_tt_start, time_max,
                iterations, raised>>

(***************************************************************************)
(* Bounds of the model                                                     *)
(***************************************************************************)
\* vector components are drawn from 0..MaxComp
MaxComp == 1

\* number of components of a vector, side of a matrix
Dim == 3

(***************************************************************************)
(* Core/State.py: enumerations                                             *)
(***************************************************************************)
CoordinateSystems == {"Cartesian", "Spherical", "WGS84"}

ReferenceFrames == {"EarthCenteredInertial", "EarthCenteredEarthFixed",
                    "Geographic", "Body", "Wind", "FlightPath"}

\* exceptions
Raise(e) == [exc |-> e]
IsExc(x) == "exc" \in DOMAIN x

VectorKinds == {"Position", "Velocity"}
MatrixKinds == {"Transformation", "AngularVelocity"}

IsVector(x) == "kind" \in DOMAIN x /\ x.kind \in VectorKinds
IsMatrix(x) == "kind" \in DOMAIN x /\ x.kind \in MatrixKinds

\* Vector.__init__ through Position.__init__ / Velocity.__init__
Vector(kind, data, reference_frame, coordinate_system) ==
    [kind |-> kind, data |-> data, reference_frame |-> reference_frame,
     coordinate_system |-> coordinate_system]

\* Matrix.__init__ through Transformation.__init__ / AngularVelocity.__init__
Matrix(kind, data, reference_frame_from, reference_frame_to) ==
    [kind |-> kind, data |-> data,
     reference_frame_from |-> reference_frame_from,
     reference_frame_to |-> reference_frame_to]

(***************************************************************************)
(* numpy arithmetic on the data arrays                                     *)
(***************************************************************************)
\* ndarray.__iadd__ (rvalue.data += self.data)
np_iadd(x, y) == [i \in 1..Dim |-> x[i] + y[i]]

\* ndarray.__isub__ (rvalue.data -= self.data)
np_isub(x, y) == [i \in 1..Dim |-> x[i] - y[i]]

\* ndarray.T of a Dim x Dim array
np_T(m) == [i \in 1..Dim |-> [j \in 1..Dim |-> m[j][i]]]

RECURSIVE Dot(_, _, _)
Dot(r, c, n) == IF n = 0 THEN 0 ELSE r[n] * c[n] + Dot(r, c, n - 1)

\* ndarray.__matmul__, matrix @ vector
np_matvec(m, v) == [i \in 1..Dim |-> Dot(m[i], v, Dim)]

\* ndarray.__matmul__, matrix @ matrix
np_matmat(m, n) ==
    [i \in 1..Dim |-> [j \in 1..Dim |-> Dot(m[i], [k \in 1..Dim |-> n[k][j]], Dim)]]

(***************************************************************************)
(* Core/State.py: Vector.__add__, Vector.__sub__                           *)
(***************************************************************************)
\* Vector.__add__ without its reference-frame check
Vector_add_nocheck(self, other) ==
    IF ~IsVector(other) THEN Raise("AttributeError")
    ELSE [other EXCEPT !.data = np_iadd(other.data, self.data)]

\* Vector.__add__(self, other): an operand that is no Vector (an ndarray) has no
\* reference_frame attribute
Vector_add(self, other) ==
    IF ~IsVector(other) THEN Raise("AttributeError")
    ELSE IF self.reference_frame # other.reference_frame THEN Raise("RuntimeError")
    ELSE [other EXCEPT !.data = np_iadd(other.data, self.data)]

\* Vector.__sub__(self, other)
Vector_sub(self, other) ==
    IF ~IsVector(other) THEN Raise("AttributeError")
    ELSE IF self.reference_frame # other.reference_frame THEN Raise("RuntimeError")
    ELSE [other EXCEPT !.data = np_isub(other.data, self.data)]

\* Velocity.from_vector_data / Position.from_vector_data: a vector of the class
\* with the data and tags of vec_data (an ndarray has no reference_frame)
from_vector_data(kind, vec_data) ==
    IF IsExc(vec_data) THEN vec_data
    ELSE IF "reference_frame" \in DOMAIN vec_data
    THEN Vector(kind, vec_data.data, vec_data.reference_frame,
                vec_data.coordinate_system)
    ELSE Raise("AttributeError")

\* add(a, b) is the expression a + b, subtract(a, b) the expression a - b
add(a, b) == Vector_add(a, b)
subtract(a, b) == Vector_sub(a, b)

(***************************************************************************)
(* Core/State.py: Transformation, AngularVelocity                          *)
(***************************************************************************)
\* the transpose that keeps the frames in place
T_noswap(self) == Matrix(self.kind, np_T(self.data), self.reference_frame_from,
                         self.reference_frame_to)

\* Transformation.T / AngularVelocity.T
T(self) == Matrix(self.kind, np_T(self.data), self.reference_frame_to,
                  self.reference_frame_from)

\* Transformation.__matmul__
Transformation_matmul(self, other) ==
    IF IsVector(other)
    THEN [other EXCEPT !.data = np_matvec(self.data, other.data),
                       !.reference_frame = self.reference_frame_to]
    ELSE IF "kind" \in DOMAIN other /\ other.kind = "Transformation"
    THEN [other EXCEPT !.data = np_matmat(self.data, other.data),
                       !.reference_frame_to = self.reference_frame_to,
                       !.reference_frame_from = other.reference_frame_from]
    ELSE Raise("RuntimeError")

\* AngularVelocity.__matmul__
AngularVelocity_matmul(self, other) ==
    IF "kind" \in DOMAIN other /\ other.kind = "Position"
    THEN [other EXCEPT !.data = np_matvec(self.data, other.data),
                       !.reference_frame = self.reference_frame_to]
    ELSE IF "kind" \in DOMAIN other /\ other.kind = "AngularVelocity"
    THEN [other EXCEPT !.data = np_matmat(self.data, other.data)]
    ELSE Raise("RuntimeError")

\* the expression  self @ other
matmul(self, other) ==
    IF self.kind = "Transformation" THEN Transformation_matmul(self, other)
    ELSE AngularVelocity_matmul(self, other)

(***************************************************************************)
(* Frame algebra: operands and calls                                       *)
(***************************************************************************)
\* the value of a variable that holds nothing yet (Python None)
None == [kind |-> "None"]

\* data of the drawn vectors: components in 0..MaxComp, at most MaxComp in total
VecData == {d \in [1..Dim -> 0..MaxComp] : d[1] + d[2] + d[3] <= MaxComp}

Vectors == {Vector(k, d, f, c) : k \in VectorKinds, d \in VecData,
                                 f \in ReferenceFrames, c \in CoordinateSystems}

\* data of the drawn matrices: the identity, a rotation about z, the skew
\* operator of the x axis, and a matrix that is neither symmetric nor skew
MatData == { <<<<1, 0, 0>>, <<0, 1, 0>>, <<0, 0, 1>>>>,
             <<<<0, -1, 0>>, <<1, 0, 0>>, <<0, 0, 1>>>>,
             <<<<0, 0, 0>>, <<0, 0, -1>>, <<0, 1, 0>>>>,
             <<<<1, 2, 0>>, <<0, 1, 0>>, <<3, 0, 1>>>> }

Matrices == {Matrix(k, d, f, t) : k \in MatrixKinds, d \in MatData,
                                  f \in ReferenceFrames, t \in ReferenceFrames}

AlgIdle == args = <<>> /\ ops = <<>> /\ out = None

\* a + b
Add ==
    /\ ops = <<>> /\ Len(args) = 2 /\ IsVector(args[1]) /\ IsVector(args[2])
    /\ out' = add(args[1], args[2])
    /\ ops' = <<"add">>
    /\ UNCHANGED <<args, cacheVars, earthVars, solverVars>>
    /\ UNCHANGED <<objVars, simVars>>

\* a - b
Subtract ==
    /\ ops = <<>> /\ Len(args) = 2 /\ IsVector(args[1]) /\ IsVector(args[2])
    /\ out' = subtract(args[1], args[2])
    /\ ops' = <<"subtract">>
    /\ UNCHANGED <<args, cacheVars, earthVars, solverVars>>
    /\ UNCHANGED <<objVars, simVars>>

\* (a + b) - b, on the vector a + b returned
SubtractFromSum ==
    /\ ops = <<"add">> /\ IsVector(out)
    /\ out' = subtract(out, args[2])
    /\ ops' = <<"add", "subtract">>
    /\ UNCHANGED <<args, cacheVars, earthVars, solverVars>>
    /\ UNCHANGED <<objVars, simVars>>

\* matrix @ vector
Apply ==
    /\ ops = <<>> /\ Len(args) = 2 /\ IsMatrix(args[1]) /\ IsVector(args[2])
    /\ out' = matmul(args[1], args[2])
    /\ ops' = <<"apply">>
    /\ UNCHANGED <<args, cacheVars, earthVars, solverVars>>
    /\ UNCHANGED <<objVars, simVars>>

\* outer @ inner
Compose ==
    /\ ops = <<>> /\ Len(args) = 2 /\ IsMatrix(args[1]) /\ IsMatrix(args[2])
    /\ out' = matmul(args[1], args[2])
    /\ ops' = <<"compose">>
    /\ UNCHANGED <<args, cacheVars, earthVars, solverVars>>
    /\ UNCHANGED <<objVars, simVars>>

\* M.T
Transpose ==
    /\ ops = <<>> /\ Len(args) = 1 /\ IsMatrix(args[1])
    /\ out' = T(args[1])
    /\ ops' = <<"T">>
    /\ UNCHANGED <<args, cacheVars, earthVars, solverVars>>
    /\ UNCHANGED <<objVars, simVars>>

\* M.T.T, on the matrix M.T returned
TransposeAgain ==
    /\ ops = <<"T">> /\ IsMatrix(out)
    /\ out' = T(out)
    /\ ops' = <<"T", "T">>
    /\ UNCHANGED <<args, cacheVars, earthVars, solverVars>>
    /\ UNCHANGED <<objVars, simVars>>

(***************************************************************************)
(* heapq, as Utilities/Cache.py uses it on the list _ordering.  Positions  *)
(* are those of the Python list (from 0); h[pos + 1] is the item at pos.   *)
(***************************************************************************)
RECURSIVE siftdown(_, _, _, _)
\* heapq._siftdown: move newitem up from pos while it is below its parent
siftdown(h, startpos, pos, newitem) ==
    IF pos > startpos
    THEN LET parentpos == (pos - 1) \div 2
             parent    == h[parentpos + 1]
         IN  IF newitem < parent
             THEN siftdown([h EXCEPT ![pos + 1] = parent], startpos, parentpos, newitem)
             ELSE [h EXCEPT ![pos + 1] = newitem]
    ELSE [h EXCEPT ![pos + 1] = newitem]

RECURSIVE siftup_loop(_, _, _, _)
\* heapq._siftup: bubble the smaller child up until a leaf is hit, then put
\* newitem there and sift it down
siftup_loop(h, startpos, pos, newitem) ==
    LET endpos   == Len(h)
        childpos == 2 * pos + 1
        rightpos == childpos + 1
        pick     == IF rightpos < endpos /\ ~(h[childpos + 1] < h[rightpos + 1])
                    THEN rightpos ELSE childpos
    IN  IF childpos < endpos
        THEN siftup_loop([h EXCEPT ![pos + 1] = h[pick + 1]], startpos, pick, newitem)
        ELSE siftdown([h EXCEPT ![pos + 1] = newitem], startpos, pos, newitem)

siftup(h, pos) == siftup_loop(h, pos, pos, h[pos + 1])

\* a push that appends the item and leaves the list as it is
heappush_append(h, item) == Append(h, item)

\* heapq.heappush(heap, item)
heappush(h, item) == siftdown(Append(h, item), 0, Len(h), item)

\* heapq.heappop(heap): <<the item returned, the list afterwards>>; the list is
\* not empty
heappop(h) ==
    LET lastelt == h[Len(h)]
        rest    == SubSeq(h, 1, Len(h) - 1)
    IN  IF rest # <<>>
        THEN <<rest[1], siftup([rest EXCEPT ![1] = lastelt], 0)>>
        ELSE <<lastelt, rest>>

(***************************************************************************)
(* Utilities/Cache.py                                                      *)
(* max_size is <<>> for None and <<n>> for the integer n.                  *)
(***************************************************************************)
\* Cache.__init__
Cache(max_size) == [max_size |-> max_size, queue |-> <<>>, ordering |-> <<>>]

\* dict: d[key] = value, del d[key]
dict_set(d, key, value) ==
    [k \in DOMAIN d \cup {key} |-> IF k = key THEN value ELSE d[k]]
dict_del(d, key) == [k \in DOMAIN d \ {key} |-> d[k]]

\* remove_oldest that pops the end of the list (list.pop) instead of the heap
remove_oldest_last(c) ==
    IF c.ordering = <<>> THEN Raise("IndexError")
    ELSE [c EXCEPT !.ordering = SubSeq(c.ordering, 1, Len(c.ordering) - 1),
                   !.queue = dict_del(c.queue, c.ordering[Len(c.ordering)])]

\* Cache.remove_oldest; popping an empty list is an IndexError
remove_oldest(c) ==
    IF c.ordering = <<>> THEN Raise("IndexError")
    ELSE LET popped == heappop(c.ordering)
         IN  [c EXCEPT !.ordering = popped[2], !.queue = dict_del(c.queue, popped[1])]

RECURSIVE reduce_to_size(_)
\* Cache._reduce_to_size
reduce_to_size(c) ==
    IF c.max_size = <<>> THEN c
    ELSE IF Cardinality(DOMAIN c.queue) > c.max_size[1]
         THEN LET d == remove_oldest(c)
              IN  IF IsExc(d) THEN d ELSE reduce_to_size(d)
         ELSE c

\* add that stores the value before it looks whether the key is there
Cache_add_overwrite(c, key, value) ==
    IF key \notin DOMAIN c.queue
    THEN reduce_to_size([c EXCEPT !.queue = dict_set(c.queue, key, value),
                                  !.ordering = heappush(c.ordering, key)])
    ELSE [c EXCEPT !.queue = dict_set(c.queue, key, value)]

\* Cache.add: the Cache afterwards
Cache_add(c, key, value) ==
    IF key \notin DOMAIN c.queue
    THEN reduce_to_size([c EXCEPT !.queue = dict_set(c.queue, key, value),
                                  !.ordering = heappush(c.ordering, key)])
    ELSE c

\* Cache.__contains__
Cache_contains(c, key) == key \in DOMAIN c.queue

\* Cache.__getitem__
Cache_getitem(c, key) ==
    IF key \in DOMAIN c.queue THEN c.queue[key] ELSE Raise("KeyError")

(***************************************************************************)
(* The cache on its own: add / in / [] called with drawn keys and values   *)
(***************************************************************************)
\* keys are drawn from 1..MaxKey
MaxKey == 6

\* max_size is None or drawn from 0..MaxCacheSize
MaxCacheSize == 5

Keys == 1..MaxKey

\* keys up to MaxTwoValued are added with either of two values, the others with one
MaxTwoValued == 2

CacheValues == {[v |-> "x"], [v |-> "y"]}

ValuesFor(key) == IF key <= MaxTwoValued THEN CacheValues ELSE {[v |-> "x"]}

CacheSizes == {<<>>} \cup {<<n>> : n \in 0..MaxCacheSize}

CacheIdle ==
    /\ cache = Cache(<<>>)
    /\ lastOp = [op |-> "none", present |-> FALSE, result |-> None]
    /\ everInserted = {}
    /\ ascending = TRUE

ResidentKeys == DOMAIN cache.queue

\* cache.add(key, value)
CacheAdd(key, value) ==
    /\ cache' = Cache_add(cache, key, value)
    /\ lastOp' = [op |-> "add", present |-> Cache_contains(cache, key),
                  result |-> [key |-> key, value |-> value,
                              evicted |-> (ResidentKeys \cup {key})
                                          \ DOMAIN Cache_add(cache, key, value).queue]]
    /\ everInserted' = everInserted \cup {key}
    /\ ascending' = (ascending /\ \A k \in everInserted : k < key)
    /\ UNCHANGED <<algVars, earthVars, solverVars>>
    /\ UNCHANGED <<objVars, simVars>>

\* key in cache
CacheContains(key) ==
    /\ lastOp' = [op |-> "contains", present |-> Cache_contains(cache, key),
                  result |-> [bool |-> Cache_contains(cache, key)]]
    /\ UNCHANGED <<cache, everInserted, ascending, algVars, earthVars, solverVars>>
    /\ UNCHANGED <<objVars, simVars>>

\* cache[key]
CacheGet(key) ==
    /\ lastOp' = [op |-> "get", present |-> Cache_contains(cache, key),
                  result |-> Cache_getitem(cache, key)]
    /\ UNCHANGED <<cache, everInserted, ascending, algVars, earthVars, solverVars>>
    /\ UNCHANGED <<objVars, simVars>>

(***************************************************************************)
(* Earth/EarthState.py: EarthStateGeoid                                    *)
(* A time is [scale, jd]; the cache is keyed by the TT Julian date.  The   *)
(* arrays one provider call returns are told apart from those of every     *)
(* other call by the date and the number of the call made for that date.   *)
(***************************************************************************)
\* the provider is called at most MaxCalls times for one date
MaxCalls == 2

\* EarthStateGeoid.__init__: Cache.Cache(max_size=5)
GeoidCacheSize == 5

\* TerraFrame Conversions.any_to_tt: a TT date is returned as it is, a UTC date
\* is shifted by the TT - UTC offset (one unit of the model's time)
any_to_tt(time) == IF time.scale = "TT" THEN time.jd ELSE time.jd + 1

\* the times queried: every TT date of Keys, and the UTC dates that land on them
QueryTimes == {[scale |-> "TT", jd |-> k] : k \in Keys}
              \cup {[scale |-> "UTC", jd |-> k - 1] : k \in Keys}

\* self._ct.gcrs_to_itrs_angular_vel(time_tt), the n-th call for that date: the
\* two arrays
gcrs_to_itrs_angular_vel(time_tt, n) ==
    << [of |-> "t_ei", tt |-> time_tt, call |-> n],
       [of |-> "w_ei", tt |-> time_tt, call |-> n] >>

\* the lookup keyed by time_tt, the insert keyed by the time as given
get_transformation_and_angular_velocity_rawkey(c, ncalls, time) ==
    LET time_tt == any_to_tt(time)
    IN  IF Cache_contains(c, time_tt)
        THEN [cache |-> c, called |-> FALSE, answer |-> Cache_getitem(c, time_tt)]
        ELSE LET arrays == gcrs_to_itrs_angular_vel(time_tt, ncalls[time_tt] + 1)
                 t_ei == Matrix("Transformation", arrays[1],
                                "EarthCenteredInertial", "EarthCenteredEarthFixed")
                 w_ei == Matrix("AngularVelocity", arrays[2],
                                "EarthCenteredInertial", "EarthCenteredEarthFixed")
             IN  [cache |-> Cache_add(c, time.jd, <<t_ei, w_ei>>),
                  called |-> TRUE,
                  answer |-> <<t_ei, w_ei>>]

\* EarthStateGeoid._get_transformation_and_angular_velocity:
\* [cache, called: whether the provider was called, answer: the pair returned]
get_transformation_and_angular_velocity(c, ncalls, time) ==
    LET time_tt == any_to_tt(time)
    IN  IF Cache_contains(c, time_tt)
        THEN [cache |-> c, called |-> FALSE, answer |-> Cache_getitem(c, time_tt)]
        ELSE LET arrays == gcrs_to_itrs_angular_vel(time_tt, ncalls[time_tt] + 1)
                 t_ei == Matrix("Transformation", arrays[1],
                                "EarthCenteredInertial", "EarthCenteredEarthFixed")
                 w_ei == Matrix("AngularVelocity", arrays[2],
                                "EarthCenteredInertial", "EarthCenteredEarthFixed")
             IN  [cache |-> Cache_add(c, time_tt, <<t_ei, w_ei>>),
                  called |-> TRUE,
                  answer |-> <<t_ei, w_ei>>]

\* EarthStateGeoid.transformation_matrix: answer[0]
transformation_matrix(r) == r.answer[1]

\* EarthStateGeoid.angular_velocity: answer[1]
angular_velocity(r) == r.answer[2]

EarthIdle ==
    /\ provider_calls = [k \in Keys |-> 0]
    /\ lastQuery = [fn |-> "none", key |-> 0, hit |-> FALSE, answer |-> None]
    /\ run = [key |-> 0, many |-> FALSE, calls |-> 0, stamps |-> {}, fns |-> {}]

\* one query; run follows the consecutive queries at one TT date: whether there
\* were several, the provider calls they made, the calls whose arrays they
\* returned, and which of the two queries were made
Query(fn, time) ==
    LET r      == get_transformation_and_angular_velocity(cache, provider_calls, time)
        key    == any_to_tt(time)
        answer == IF fn = "transformation_matrix" THEN transformation_matrix(r)
                  ELSE angular_velocity(r)
        same   == run.fns # {} /\ run.key = key
        made   == IF r.called THEN 1 ELSE 0
    IN  /\ provider_calls[key] + made <= MaxCalls
        /\ cache' = r.cache
        /\ provider_calls' = [provider_calls EXCEPT ![key] = @ + made]
        /\ lastQuery' = [fn |-> fn, key |-> key, hit |-> ~r.called, answer |-> answer]
        /\ run' = [key    |-> key,
                   many   |-> same,
                   calls  |-> IF same THEN run.calls + made ELSE made,
                   stamps |-> (IF same THEN run.stamps ELSE {}) \cup {answer.data.call},
                   fns    |-> (IF same THEN run.fns ELSE {}) \cup {fn}]

\* EarthStateGeoid.transformation_matrix(time)
TransformationMatrix(time) ==
    /\ Query("transformation_matrix", time)
    /\ UNCHANGED <<lastOp, everInserted, ascending, algVars, solverVars>>
    /\ UNCHANGED <<objVars, simVars>>

\* EarthStateGeoid.angular_velocity(time)
AngularVelocityAt(time) ==
    /\ Query("angular_velocity", time)
    /\ UNCHANGED <<lastOp, everInserted, ascending, algVars, solverVars>>
    /\ UNCHANGED <<objVars, simVars>>

(***************************************************************************)
(* SimObjects/SimObjects.py: BaseObject.flight_path_angles_from_geographic *)
(* A real number is kept as <<its sign, its square>>, which is exact for   *)
(* the integers and for their square roots; an angle is [deg |-> d] when   *)
(* it is a multiple of 45 degrees and [atan2 |-> <<y, x>>] otherwise.      *)
(***************************************************************************)
sgn(n) == IF n > 0 THEN 1 ELSE IF n < 0 THEN -1 ELSE 0

\* a float with an integer value
Real(n) == <<sgn(n), n * n>>

\* np.sqrt of a non-negative integer
np_sqrt(n) == <<sgn(n), n>>

Deg(d) == [deg |-> d]

\* np.atan2(y, x); atan2(0, 0) is 0
np_atan2(y, x) ==
    IF y[1] = 0 THEN (IF x[1] >= 0 THEN Deg(0) ELSE Deg(180))
    ELSE IF x[1] = 0 THEN Deg(90 * y[1])
    ELSE IF y[2] = x[2] THEN Deg(y[1] * (IF x[1] > 0 THEN 45 ELSE 135))
    ELSE [atan2 |-> <<y, x>>]

\* the angles with the vertical case taken as positive for a downward velocity
flight_path_angles_down_positive(v) ==
    LET heading_angle == np_atan2(Real(v.data[2]), Real(v.data[1]))
        denominator   == np_sqrt(v.data[1] * v.data[1] + v.data[2] * v.data[2])
        flight_path_angle ==
            IF denominator[1] > 0
            THEN np_atan2(Real(-v.data[3]), denominator)
            ELSE IF v.data[3] > 0 THEN Deg(90)
            ELSE IF v.data[3] < 0 THEN Deg(-90)
            ELSE Deg(0)
    IN  <<heading_angle, flight_path_angle>>

\* BaseObject.flight_path_angles_from_geographic(v_bi_g):
\* <<heading_angle, flight_path_angle>>; v_bi_g[0], [1], [2] are data[1], [2], [3]
flight_path_angles_from_geographic(v) ==
    LET heading_angle == np_atan2(Real(v.data[2]), Real(v.data[1]))
        denominator   == np_sqrt(v.data[1] * v.data[1] + v.data[2] * v.data[2])
        flight_path_angle ==
            IF denominator[1] > 0
            THEN np_atan2(Real(-v.data[3]), denominator)
            ELSE IF v.data[3] > 0 THEN Deg(-90)
            ELSE IF v.data[3] < 0 THEN Deg(90)
            ELSE Deg(0)
    IN  <<heading_angle, flight_path_angle>>

\* the components of a geographic velocity are drawn from -MaxSpeed..MaxSpeed
MaxSpeed == 5

GeographicVelocities ==
    {Vector("Velocity", <<n, e, d>>, "Geographic", "Cartesian") :
        n \in -MaxSpeed..MaxSpeed, e \in -MaxSpeed..MaxSpeed,
        d \in -MaxSpeed..MaxSpeed}

\* BaseObject.flight_path_angles_from_geographic(v_bi_g)
FlightPathAngles ==
    /\ v_bi_g # None /\ angles = None
    /\ angles' = flight_path_angles_from_geographic(v_bi_g)
    /\ UNCHANGED <<raw, built, v_bi_g>>
    /\ UNCHANGED <<algVars, cacheVars, earthVars, solverVars, simVars>>

(***************************************************************************)
(* SimObjects/SimObjects.py: BaseObject.new_state                          *)
(* Angles (latitude, longitude) are counted in quarter turns, so that      *)
(* their sines and cosines are integers; the positions of the model lie on *)
(* the axes.  The Earth turns a quarter turn per unit of time.             *)
(***************************************************************************)
\* sine and cosine of q quarter turns
sinq(q) == <<0, 1, 0, -1>>[(q % 4) + 1]
cosq(q) == <<1, 0, -1, 0>>[(q % 4) + 1]

\* the numbers in an array the provider returned for the date tt: the rotation
\* about the z axis by tt quarter turns (t_ei) and its rate of change (w_ei)
array_values(a) ==
    IF a.of = "t_ei"
    THEN << <<cosq(a.tt), sinq(a.tt), 0>>, <<-sinq(a.tt), cosq(a.tt), 0>>,
            <<0, 0, 1>> >>
    ELSE << <<-sinq(a.tt), cosq(a.tt), 0>>, <<-cosq(a.tt), -sinq(a.tt), 0>>,
            <<0, 0, 0>> >>

\* a Transformation / AngularVelocity the Earth state returned, with the numbers
\* of its array
numeric(m) == [m EXCEPT !.data = array_values(m.data)]

\* radius of the model's Earth
EarthRadius == 1

\* unit vector of a latitude and a longitude
direction(lat, lon) ==
    <<cosq(lat) * cosq(lon), cosq(lat) * sinq(lon), sinq(lat)>>

\* earth.cartesian_from_lat_lon_alt(lat, lon, alt)
cartesian_from_lat_lon_alt(d) ==
    [i \in 1..Dim |-> (EarthRadius + d[3]) * direction(d[1], d[2])[i]]

\* earth.cartesian_from_geocentric_lat_lon_radius(lat, lon, radius)
cartesian_from_geocentric_lat_lon_radius(d) ==
    [i \in 1..Dim |-> d[3] * direction(d[1], d[2])[i]]

\* earth.lat_lon_alt_from_cartesian(x, y, z) of a point on an axis:
\* <<lat, lon, alt>>
lat_lon_alt_from_cartesian(d) ==
    IF d[1] = 0 /\ d[2] = 0
    THEN <<sgn(d[3]), 0, sgn(d[3]) * d[3] - EarthRadius>>
    ELSE IF d[2] = 0
    THEN <<0, IF d[1] > 0 THEN 0 ELSE 2, sgn(d[1]) * d[1] - EarthRadius>>
    ELSE <<0, sgn(d[2]), sgn(d[2]) * d[2] - EarthRadius>>

\* RuntimeError('Unsupported reference frame ... to inertial frame
\* transformation.')
UnsupportedFrame ==
    [exc |-> "RuntimeError", message |-> "Unsupported reference frame"]

\* BaseObject._vector_to_cartesian
vector_to_cartesian(vector) ==
    IF vector.coordinate_system = "WGS84"
    THEN [vector EXCEPT !.data = cartesian_from_lat_lon_alt(vector.data),
                        !.coordinate_system = "Cartesian"]
    ELSE IF vector.coordinate_system = "Spherical"
    THEN [vector EXCEPT !.data = cartesian_from_geocentric_lat_lon_radius(vector.data),
                        !.coordinate_system = "Cartesian"]
    ELSE vector

\* the Earth state a body holds: the Geoid's cache and the provider calls made
\* one transformation_matrix / angular_velocity query: [earth, answer]
earth_query(e, time) ==
    LET r == get_transformation_and_angular_velocity(e.cache, e.calls, time)
    IN  [earth  |-> [cache |-> r.cache,
                     calls |-> IF r.called
                               THEN [e.calls EXCEPT ![any_to_tt(time)] = @ + 1]
                               ELSE e.calls],
         answer |-> r.answer]

\* _position_to_inertial_frame that takes every frame but the Earth-fixed one
\* for the inertial frame
position_to_inertial_frame_lenient(t_ei, position) ==
    IF position.reference_frame = "EarthCenteredEarthFixed"
    THEN Transformation_matmul(T(t_ei), position)
    ELSE position

\* BaseObject._position_to_inertial_frame, given the t_ei it has queried
position_to_inertial_frame(t_ei, position) ==
    IF position.reference_frame = "EarthCenteredEarthFixed"
    THEN Transformation_matmul(T(t_ei), position)
    ELSE IF position.reference_frame = "EarthCenteredInertial"
    THEN position
    ELSE UnsupportedFrame

\* BaseObject._velocity_to_inertial_frame, given the omega_ei_i it has queried
velocity_to_inertial_frame(omega_ei_i, velocity, position) ==
    IF velocity.reference_frame = "EarthCenteredEarthFixed"
    THEN LET pos_tmp == [position EXCEPT !.reference_frame = velocity.reference_frame]
             v_tmp   == from_vector_data("Velocity",
                            AngularVelocity_matmul(omega_ei_i, pos_tmp))
             v_bi_i  == IF IsExc(v_tmp) THEN v_tmp ELSE Vector_add(velocity, v_tmp)
         IN  IF IsExc(v_bi_i) THEN v_bi_i
             ELSE [v_bi_i EXCEPT !.reference_frame = "EarthCenteredInertial"]
    ELSE IF velocity.reference_frame = "EarthCenteredInertial"
    THEN velocity
    ELSE UnsupportedFrame

\* what a new_state call did: the Earth state it left, the Earth queries it
\* made, the vectors after _vector_to_cartesian, the inertial position and
\* velocity it resolved (None when not reached), the line it raised at (0 when
\* it returned) and what it returned or raised
NewStateResult(earth, queries, entered, position, velocity, line, ret_) ==
    [earth |-> earth, queries |-> queries, entered |-> entered,
     position |-> position, velocity |-> velocity, line |-> line, ret |-> ret_]

\* the element of a set of one element; {F(x) : x \in {e}} names the value of e
\* as x in F(x)
Only(S) == CHOOSE x \in S : TRUE

\* BaseObject.new_state, lines 66-113: the geodetic coordinates, the transforms
\* to the Geographic frame, the velocity relative to the rotating Earth in that
\* frame, its angles and the transform to the flight-path frame
new_state_derive(earth, time, entered, position, velocity, T_EI, omega_ei_i) ==
    LET s_bi_e    == Transformation_matmul(T_EI, position)
        lla       == lat_lon_alt_from_cartesian(s_bi_e.data)
        lat       == lla[1]
        lon       == lla[2]
        T_GE      == Matrix("Transformation",
                       << <<-sinq(lat) * cosq(lon), -sinq(lat) * sinq(lon), cosq(lat)>>,
                          <<-sinq(lon), cosq(lon), 0>>,
                          <<-cosq(lat) * cosq(lon), -cosq(lat) * sinq(lon), -sinq(lat)>> >>,
                       "EarthCenteredEarthFixed", "Geographic")
        T_IG      == Transformation_matmul(T(T_EI), T(T_GE))
        rotation  == from_vector_data("Velocity",
                                      AngularVelocity_matmul(omega_ei_i, position))
        relative  == IF IsExc(rotation) THEN rotation
                     ELSE Vector_sub(velocity, rotation)
        v_bi_g_   == Transformation_matmul(T(T_IG), relative)
        chi_gamma == flight_path_angles_from_geographic(v_bi_g_)
        T_VG      == Matrix("Transformation", [rotation_by |-> chi_gamma],
                            "Geographic", "FlightPath")
        frame     == [kind |-> "StateFrame", time |-> time,
                      s_bi_i |-> position, v_bi_i |-> velocity,
                      T_EI |-> T_EI, omega_ei_i |-> omega_ei_i,
                      latitude |-> lat, longitude |-> lon, alt |-> lla[3],
                      T_GE |-> T_GE, T_IG |-> T_IG,
                      heading_angle |-> chi_gamma[1],
                      flight_path_angle |-> chi_gamma[2], T_VG |-> T_VG]
    IN  IF IsExc(relative)
        THEN NewStateResult(earth, 4, entered, position, velocity, 88, relative)
        ELSE NewStateResult(earth, 4, entered, position, velocity, 0, frame)

\* BaseObject.new_state, lines 56-64: the two Earth queries of the state frame
new_state_frame(earth, time, entered, position, velocity) ==
    Only({ Only({ new_state_derive(q4.earth, time, entered, position, velocity,
                                   numeric(transformation_matrix(q3)),
                                   numeric(angular_velocity(q4))) :
                  q4 \in {earth_query(q3.earth, time)} }) :
           q3 \in {earth_query(earth, time)} })

\* BaseObject.new_state, line 54: the velocity resolved to the inertial frame;
\* _velocity_to_inertial_frame asserts an inertial position before its query
new_state_velocity(earth, time, entered, position) ==
    IF IsExc(position)
    THEN NewStateResult(earth, 1, entered, None, None, 53, position)
    ELSE IF position.reference_frame # "EarthCenteredInertial"
    THEN NewStateResult(earth, 1, entered, position, None, 54,
                        Raise("AssertionError"))
    ELSE Only({ Only({ IF IsExc(velocity)
                       THEN NewStateResult(q2.earth, 2, entered, position, None,
                                           54, velocity)
                       ELSE new_state_frame(q2.earth, time, entered, position,
                                            velocity) :
                       velocity \in {velocity_to_inertial_frame(
                                        numeric(angular_velocity(q2)),
                                        entered[2], position)} }) :
                q2 \in {earth_query(earth, time)} })

\* BaseObject.new_state(time, position, velocity) with the Earth state e:
\* lines 50-53, the vectors made Cartesian and the position resolved to the
\* inertial frame, then the rest
new_state(e, time, position_arg, velocity_arg) ==
    Only({ Only({ new_state_velocity(q1.earth, time, entered, position) :
                  position \in {position_to_inertial_frame(
                                    numeric(transformation_matrix(q1)),
                                    entered[1])} }) :
           q1 \in {earth_query(e, time)},
           entered \in {<<vector_to_cartesian(position_arg),
                          vector_to_cartesian(velocity_arg)>>} })

\* the times new_state is called with
NewStateTimes == {t \in QueryTimes : any_to_tt(t) = 1}

\* Cartesian data of a point on an axis
AxisData == {[i \in 1..Dim |-> IF i = k THEN a ELSE 0] :
                k \in 1..Dim, a \in -MaxComp..MaxComp}

\* <<latitude, longitude, altitude or radius>> data
AngleData == [1..Dim -> 0..MaxComp]

\* the positions new_state is called with, in any frame
RawPositions ==
    {Vector("Position", d, f, "Cartesian") : d \in AxisData, f \in ReferenceFrames}
    \cup {Vector("Position", d, f, c) : d \in AngleData, f \in ReferenceFrames,
                                        c \in {"Spherical", "WGS84"}}

\* the velocities new_state is called with, in any frame
RawVelocities ==
    {Vector("Velocity", d, f, c) : d \in VecData, f \in ReferenceFrames,
                                   c \in CoordinateSystems}

ObjIdle == raw = None /\ built = None /\ v_bi_g = None /\ angles = None

\* self.new_state(time, position, velocity) of a body whose Earth state is a
\* Geoid
NewState ==
    /\ raw # None /\ built = None
    /\ LET r == new_state([cache |-> cache, calls |-> provider_calls],
                          raw.time, raw.position, raw.velocity)
       IN  /\ built' = r
           /\ cache' = r.earth.cache
           /\ provider_calls' = r.earth.calls
    /\ UNCHANGED <<raw, v_bi_g, angles>>
    /\ UNCHANGED <<lastOp, everInserted, ascending, lastQuery, run>>
    /\ UNCHANGED <<algVars, solverVars, simVars>>

(***************************************************************************)
(* Core/Solvers.py                                                         *)
(* A float is a fraction <<numerator, denominator>>; an ndarray is         *)
(* [kind |-> "ndarray", data]; a StateFrame holds time, s_bi_i, v_bi_i.    *)
(***************************************************************************)
ndarray(data) == [kind |-> "ndarray", data |-> data]

\* the StateFrame fields the solvers read
StateFrame(time, s_bi_i, v_bi_i) ==
    [kind |-> "StateFrame", time |-> time, s_bi_i |-> s_bi_i, v_bi_i |-> v_bi_i]

IsStateFrame(x) == "kind" \in DOMAIN x /\ x.kind = "StateFrame"

\* c * x and x * c for a float c: numpy scales an ndarray; Vector defines
\* neither __mul__ nor __rmul__, so Python raises TypeError
float_mul(c, x) ==
    IF IsExc(x) THEN x
    ELSE IF x.kind = "ndarray"
    THEN ndarray([i \in 1..Dim |-> (c[1] * x.data[i]) \div c[2]])
    ELSE Raise("TypeError")

\* left + right where left is a Vector: Vector.__add__(left, right)
plus(left, right) ==
    IF IsExc(left) THEN left
    ELSE IF IsExc(right) THEN right
    ELSE Vector_add(left, right)

\* the injected acceleration function: its law and the type it returns
function_accelerations(fn, state_frame) ==
    LET data == IF fn.law = "zero" THEN <<0, 0, 0>> ELSE <<0, 0, -2>>
    IN  IF fn.returns = "ndarray" THEN ndarray(data)
        ELSE Vector("Velocity", data, "EarthCenteredInertial", "Cartesian")

\* the times of the state frames the solvers handle are TT Julian dates, kept
\* as numbers: the JulianDate of a number, and the frame new_state built with
\* its time as a number
tt(jd) == [scale |-> "TT", jd |-> jd]
as_solver_frame(r) == IF IsStateFrame(r) THEN [r EXCEPT !.time = r.time.jd] ELSE r

\* self.functions_new_state(time, position, velocity), the injected
\* state-construction function: one that returns a StateFrame holding the time,
\* position and velocity it is given, one that raises, or the new_state method
\* of the body, whose Earth state is self.earth
functions_new_state(self, time, position, velocity) ==
    IF self.functions_new_state = "returns"
    THEN StateFrame(time, position, velocity)
    ELSE IF self.functions_new_state = "raises" THEN Raise("RuntimeError")
    ELSE as_solver_frame(new_state(self.earth, tt(time), position, velocity).ret)

AccelCall(state_frame) == [fn |-> "function_accelerations", arg |-> state_frame]
NewStateCall(time, position, velocity) ==
    [fn |-> "functions_new_state", time |-> time, position |-> position,
     velocity |-> velocity]

\* next_state that builds the new state at the current time
SolverFixed_next_state_nodt(self, current_state, dt) ==
    LET v_bi_i == current_state.v_bi_i
        p_bi_i == current_state.s_bi_i
    IN  [calls |-> <<NewStateCall(current_state.time, p_bi_i, v_bi_i)>>,
         ret   |-> functions_new_state(self,
                                       current_state.time, p_bi_i, v_bi_i)]

\* SolverFixed.next_state: [calls made, ret: what is returned or raised]
SolverFixed_next_state(self, current_state, dt) ==
    LET v_bi_i == current_state.v_bi_i
        p_bi_i == current_state.s_bi_i
    IN  [calls |-> <<NewStateCall(dt + current_state.time, p_bi_i, v_bi_i)>>,
         ret   |-> functions_new_state(self,
                                       dt + current_state.time, p_bi_i, v_bi_i)]

\* SolverVelocityVerlet.next_state: [calls made, ret: what is returned or raised]
SolverVelocityVerlet_next_state(self, current_state, dt) ==
    LET time        == dt + current_state.time
        accel0      == function_accelerations(self.function_accelerations, current_state)
        v_bi_i_half == plus(current_state.v_bi_i,
                            float_mul(<<dt, 1>>, float_mul(<<1, 2>>, accel0)))
        p_bi_i      == plus(current_state.s_bi_i, float_mul(<<dt, 1>>, v_bi_i_half))
        mid         == functions_new_state(self, time, p_bi_i,
                                           v_bi_i_half)
        accel1      == function_accelerations(self.function_accelerations, mid)
        v_bi_i      == plus(v_bi_i_half,
                            float_mul(<<dt, 1>>, float_mul(<<1, 2>>, accel1)))
        final       == functions_new_state(self, time, p_bi_i,
                                           v_bi_i)
        c1 == <<AccelCall(current_state)>>
        c2 == Append(c1, NewStateCall(time, p_bi_i, v_bi_i_half))
        c3 == Append(c2, AccelCall(mid))
        c4 == Append(c3, NewStateCall(time, p_bi_i, v_bi_i))
    IN  IF IsExc(v_bi_i_half) THEN [calls |-> c1, ret |-> v_bi_i_half]
        ELSE IF IsExc(p_bi_i) THEN [calls |-> c1, ret |-> p_bi_i]
        ELSE IF IsExc(mid)    THEN [calls |-> c2, ret |-> mid]
        ELSE IF IsExc(v_bi_i) THEN [calls |-> c3, ret |-> v_bi_i]
        ELSE [calls |-> c4, ret |-> final]

\* State.Acceleration(data, reference_frame, coordinate_system): Core/State.py
\* defines Vector, Velocity and Position but no Acceleration, so the attribute
\* lookup on the module raises AttributeError before the call is made
State_Acceleration(data, reference_frame, coordinate_system) ==
    Raise("AttributeError")

\* SolverEuler.next_state: [calls made, ret: what is returned or raised]
SolverEuler_next_state(self, current_state, dt) ==
    LET time    == dt + current_state.time
        accel_r == function_accelerations(self.function_accelerations, current_state)
        accel_i == State_Acceleration(accel_r.data, "EarthCenteredInertial",
                                      "Cartesian")
        v_bi_i  == plus(current_state.v_bi_i,
                        from_vector_data("Velocity", float_mul(<<dt, 1>>, accel_i)))
        p_bi_i  == plus(current_state.s_bi_i,
                        from_vector_data("Position", float_mul(<<dt, 1>>, v_bi_i)))
        final   == functions_new_state(self, time, p_bi_i,
                                       v_bi_i)
        c1 == <<AccelCall(current_state)>>
        c2 == Append(c1, NewStateCall(time, p_bi_i, v_bi_i))
    IN  IF IsExc(accel_i) THEN [calls |-> c1, ret |-> accel_i]
        ELSE IF IsExc(v_bi_i) THEN [calls |-> c1, ret |-> v_bi_i]
        ELSE IF IsExc(p_bi_i) THEN [calls |-> c1, ret |-> p_bi_i]
        ELSE [calls |-> c2, ret |-> final]

(***************************************************************************)
(* One body and its solver, stepped as Simulator.run steps it              *)
(***************************************************************************)
\* the step is drawn from 1..MaxDt (time_step is validated > 0)
MaxDt == 2

\* at most MaxSteps results are installed
MaxSteps == 3

AccelFunctions == [law : {"zero", "constant"}, returns : {"ndarray", "Vector"}]

SolverKinds == {"SolverFixed", "SolverEuler", "SolverVelocityVerlet"}

Solvers == [kind : SolverKinds, function_accelerations : AccelFunctions,
            functions_new_state : {"returns", "raises"}]

\* the snapshots a body starts with: inertial, Cartesian position and velocity
InitialFrames ==
    {StateFrame(0, Vector("Position", p, "EarthCenteredInertial", "Cartesian"),
                   Vector("Velocity", v, "EarthCenteredInertial", "Cartesian")) :
        p \in VecData, v \in VecData}

SolverIdle ==
    /\ solver = [kind |-> "none"]
    /\ time_step = 0
    /\ state = None /\ initial = None
    /\ steps = 0 /\ calls = <<>> /\ ret = None

\* state_frame = self._solvers[name].next_state(sim_obj.state, time_step)
FixedNextState ==
    /\ solver.kind = "SolverFixed" /\ ret = None /\ steps < MaxSteps
    /\ \E r \in {SolverFixed_next_state(solver, state, time_step)} :
          calls' = r.calls /\ ret' = r.ret
    /\ UNCHANGED <<solver, time_step, state, initial, steps>>
    /\ UNCHANGED <<algVars, cacheVars, earthVars>>
    /\ UNCHANGED <<objVars, simVars>>

VerletNextState ==
    /\ solver.kind = "SolverVelocityVerlet" /\ ret = None /\ steps < MaxSteps
    /\ \E r \in {SolverVelocityVerlet_next_state(solver, state, time_step)} :
          calls' = r.calls /\ ret' = r.ret
    /\ UNCHANGED <<solver, time_step, state, initial, steps>>
    /\ UNCHANGED <<algVars, cacheVars, earthVars>>
    /\ UNCHANGED <<objVars, simVars>>

EulerNextState ==
    /\ solver.kind = "SolverEuler" /\ ret = None /\ steps < MaxSteps
    /\ \E r \in {SolverEuler_next_state(solver, state, time_step)} :
          calls' = r.calls /\ ret' = r.ret
    /\ UNCHANGED <<solver, time_step, state, initial, steps>>
    /\ UNCHANGED <<algVars, cacheVars, earthVars>>
    /\ UNCHANGED <<objVars, simVars>>

\* BaseObject.update_state_from_state(state_frame)
UpdateStateFromState ==
    /\ IsStateFrame(ret)
    /\ state' = ret
    /\ steps' = steps + 1
    /\ calls' = <<>> /\ ret' = None
    /\ UNCHANGED <<solver, time_step, initial, algVars, cacheVars, earthVars>>
    /\ UNCHANGED <<objVars, simVars>>

(***************************************************************************)
(* Simulator.py                                                            *)
(* A body is named by its place in config.sim_objects; _sim_objects and    *)
(* _solvers are functions on the names registered, which Python iterates   *)
(* in the order they were registered.  The clock counts in the units of    *)
(* time_step.                                                              *)
(***************************************************************************)
\* a configuration has 1..MaxBodies sim objects (min_length = 1)
MaxBodies == 2

\* run is called with time_max = None or drawn from 0..MaxTime
MaxTime == 3

SimObjectTypes == {"fixed_point", "general", "ground"}

SolverType == {"default", "velocity_verlet", "euler", "fixed"}

\* Configuration.VectorData: the frame is validated to be ECI or ECEF
VectorData(data, reference_frame) ==
    [kind |-> "VectorData", data |-> data, reference_frame |-> reference_frame,
     coordinate_system |-> "Cartesian"]

\* one entry of config.sim_objects
ConfigEntry(shape) ==
    [object_type |-> shape.object_type, solver |-> shape.solver,
     acceleration_function |-> [law |-> "zero", returns |-> "ndarray"],
     position |-> VectorData(<<1, 0, 0>>, shape.reference_frame),
     velocity |-> VectorData(<<0, 1, 0>>, shape.reference_frame)]

EntryShapes ==
    [object_type : SimObjectTypes, solver : SolverType,
     reference_frame : {"EarthCenteredInertial", "EarthCenteredEarthFixed"}]

\* the validated configurations (Configuration.ConfigSchema)
Configs ==
    {[sim_objects |-> [i \in 1..Len(shapes) |-> ConfigEntry(shapes[i])],
      time_step   |-> dt,
      start_time  |-> [scale |-> "UTC", jd |-> 0]] :
        shapes \in UNION {[1..n -> EntryShapes] : n \in 1..MaxBodies},
        dt \in 1..MaxDt}

\* State.StateFrame(): a state frame with no attribute set
EmptyStateFrame == [kind |-> "StateFrame"]

\* the solver class _initialize_sim_objects picks for entry.solver
solver_class(solver_type) ==
    IF solver_type = "fixed" THEN "SolverFixed"
    ELSE IF solver_type = "euler" THEN "SolverEuler"
    ELSE "SolverVelocityVerlet"

\* self._solvers[name].next_state(current_state, dt)
next_state(self, current_state, dt) ==
    IF self.kind = "SolverFixed"
    THEN SolverFixed_next_state(self, current_state, dt)
    ELSE IF self.kind = "SolverEuler"
    THEN SolverEuler_next_state(self, current_state, dt)
    ELSE SolverVelocityVerlet_next_state(self, current_state, dt)

RECURSIVE earth_after(_, _, _)
\* the Earth state after the new_state calls among calls[i..], made in order
earth_after(e, calls_, i) ==
    IF i > Len(calls_) THEN e
    ELSE IF calls_[i].fn = "functions_new_state"
    THEN Only({ earth_after(r.earth, calls_, i + 1) :
                r \in {new_state(e, tt(calls_[i].time), calls_[i].position,
                                 calls_[i].velocity)} })
    ELSE earth_after(e, calls_, i + 1)

RECURSIVE initialize_sim_objects(_, _, _)
\* Simulator._initialize_sim_objects from entry i on; sim is [earth,
\* sim_objects, solvers, raised]
initialize_sim_objects(conf, i, sim) ==
    IF i > Len(conf.sim_objects) THEN sim
    ELSE LET entry == conf.sim_objects[i]
             jd_tt_ == tt(any_to_tt(conf.start_time))
         IN  IF entry.object_type = "fixed_point"
             THEN Only({
                    IF IsExc(r.ret)
                    THEN [earth |-> r.earth,
                          sim_objects |-> dict_set(sim.sim_objects, i, EmptyStateFrame),
                          solvers |-> sim.solvers, raised |-> r.ret]
                    ELSE initialize_sim_objects(conf, i + 1,
                           [earth |-> r.earth,
                            sim_objects |-> dict_set(sim.sim_objects, i,
                                                     as_solver_frame(r.ret)),
                            solvers |-> dict_set(sim.solvers, i,
                               [kind |-> solver_class(entry.solver),
                                function_accelerations |-> entry.acceleration_function,
                                functions_new_state |-> "new_state"]),
                            raised |-> None]) :
                    r \in {new_state(sim.earth, jd_tt_,
                                     from_vector_data("Position", entry.position),
                                     from_vector_data("Velocity", entry.velocity))} })
             ELSE initialize_sim_objects(conf, i + 1, sim)

RECURSIVE step_sim_objects(_, _, _)
\* the for loop of Simulator.run from the body registered i-th on; sim is
\* [earth, sim_objects, solvers, raised]
step_sim_objects(conf, i, sim) ==
    IF i > Len(conf.sim_objects) THEN sim
    ELSE IF i \notin DOMAIN sim.sim_objects
    THEN step_sim_objects(conf, i + 1, sim)
    ELSE Only({
           IF IsStateFrame(r.ret)
           THEN step_sim_objects(conf, i + 1,
                  [sim EXCEPT !.earth = earth_after(sim.earth, r.calls, 1),
                              !.sim_objects = dict_set(@, i, r.ret)])
           ELSE [sim EXCEPT !.earth = earth_after(sim.earth, r.calls, 1),
                            !.raised = r.ret] :
           r \in {next_state([kind |-> sim.solvers[i].kind,
                              function_accelerations |->
                                  sim.solvers[i].function_accelerations,
                              functions_new_state |-> "new_state",
                              earth |-> sim.earth],
                             sim.sim_objects[i], conf.time_step)} })

SimIdle ==
    /\ config = None /\ sim_objects = <<>> /\ solvers = <<>>
    /\ pc = "none" /\ jd_tt = 0 /\ jd_tt_start = 0 /\ time_max = <<>>
    /\ iterations = 0 /\ raised = None

\* Simulator.__init__: _initialize_sim_objects with a new EarthStateGeoid
Construct ==
    /\ pc = "configured"
    /\ \E r \in {initialize_sim_objects(config, 1,
                     [earth |-> [cache |-> cache, calls |-> provider_calls],
                      sim_objects |-> <<>>, solvers |-> <<>>, raised |-> None])} :
          /\ sim_objects' = r.sim_objects
          /\ solvers' = r.solvers
          /\ raised' = r.raised
          /\ pc' = IF r.raised = None THEN "constructed" ELSE "init_raised"
          /\ cache' = r.earth.cache
          /\ provider_calls' = r.earth.calls
    /\ UNCHANGED <<config, jd_tt, jd_tt_start, time_max, iterations>>
    /\ UNCHANGED <<lastOp, everInserted, ascending, lastQuery, run>>
    /\ UNCHANGED <<algVars, solverVars, objVars>>

\* Simulator.run(time_max) up to its while loop
RunEnter(tm) ==
    /\ pc = "constructed"
    /\ time_max' = tm
    /\ jd_tt' = any_to_tt(config.start_time)
    /\ jd_tt_start' = any_to_tt(config.start_time)
    /\ pc' = "running"
    /\ UNCHANGED <<config, sim_objects, solvers, iterations, raised>>
    /\ UNCHANGED <<algVars, cacheVars, earthVars, solverVars, objVars>>

\* one iteration of the while loop of Simulator.run: every body stepped and its
\* state frame installed, the clock advanced, the test for the end
RunIteration ==
    /\ pc = "running"
    /\ \E r \in {step_sim_objects(config, 1,
                     [earth |-> [cache |-> cache, calls |-> provider_calls],
                      sim_objects |-> sim_objects, solvers |-> solvers,
                      raised |-> None])} :
          /\ sim_objects' = r.sim_objects
          /\ cache' = r.earth.cache
          /\ provider_calls' = r.earth.calls
          /\ IF r.raised # None
             THEN /\ raised' = r.raised /\ pc' = "run_raised"
                  /\ UNCHANGED <<jd_tt, iterations>>
             ELSE /\ jd_tt' = jd_tt + config.time_step
                  /\ iterations' = iterations + 1
                  /\ IF time_max = <<>>
                     THEN raised' = Raise("TypeError") /\ pc' = "run_raised"
                     ELSE /\ raised' = raised
                          /\ pc' = IF jd_tt' - jd_tt_start >= time_max[1]
                                   THEN "returned" ELSE "running"
    /\ UNCHANGED <<config, solvers, jd_tt_start, time_max>>
    /\ UNCHANGED <<lastOp, everInserted, ascending, lastQuery, run>>
    /\ UNCHANGED <<algVars, solverVars, objVars>>

(***************************************************************************)
(* Specifications                                                          *)
(***************************************************************************)
\* the frame algebra called on every drawn pair of operands
AlgInputs == (Vectors \X Vectors) \cup (Matrices \X Vectors)
             \cup (Matrices \X Matrices) \cup {<<m>> : m \in Matrices}

InitAlgebra ==
    /\ args \in AlgInputs /\ ops = <<>> /\ out = None
    /\ CacheIdle /\ EarthIdle /\ SolverIdle /\ ObjIdle /\ SimIdle

NextAlgebra ==
    \/ Add
    \/ Subtract
    \/ SubtractFromSum
    \/ Apply
    \/ Compose
    \/ Transpose
    \/ TransposeAgain

SpecAlgebra == InitAlgebra /\ [][NextAlgebra]_vars

\* a Cache of any drawn max_size, called with any keys in any order
InitCache ==
    /\ cache \in {Cache(m) : m \in CacheSizes}
    /\ lastOp = [op |-> "none", present |-> FALSE, result |-> None]
    /\ everInserted = {}
    /\ ascending = TRUE
    /\ AlgIdle /\ EarthIdle /\ SolverIdle /\ ObjIdle /\ SimIdle

NextCache ==
    \/ \E key \in Keys : \E value \in ValuesFor(key) : CacheAdd(key, value)
    \/ \E key \in Keys : CacheContains(key)
    \/ \E key \in Keys : CacheGet(key)

SpecCache == InitCache /\ [][NextCache]_vars

\* an EarthStateGeoid queried at any times in any order
InitEarth ==
    /\ cache = Cache(<<GeoidCacheSize>>)
    /\ lastOp = [op |-> "none", present |-> FALSE, result |-> None]
    /\ everInserted = {}
    /\ ascending = TRUE
    /\ EarthIdle /\ AlgIdle /\ SolverIdle /\ ObjIdle /\ SimIdle

NextEarth ==
    \/ \E time \in QueryTimes : TransformationMatrix(time)
    \/ \E time \in QueryTimes : AngularVelocityAt(time)

SpecEarth == InitEarth /\ [][NextEarth]_vars

\* one body stepped by its solver
InitSolver ==
    /\ solver \in Solvers
    /\ time_step \in 1..MaxDt
    /\ state \in InitialFrames /\ initial = state
    /\ steps = 0 /\ calls = <<>> /\ ret = None
    /\ AlgIdle /\ CacheIdle /\ EarthIdle /\ ObjIdle /\ SimIdle

NextSolver ==
    \/ FixedNextState
    \/ EulerNextState
    \/ VerletNextState
    \/ UpdateStateFromState

SpecSolver == InitSolver /\ [][NextSolver]_vars

\* flight_path_angles_from_geographic called on every drawn velocity
InitAngles ==
    /\ v_bi_g \in GeographicVelocities /\ angles = None
    /\ raw = None /\ built = None
    /\ AlgIdle /\ CacheIdle /\ EarthIdle /\ SolverIdle /\ SimIdle

NextAngles == FlightPathAngles

SpecAngles == InitAngles /\ [][NextAngles]_vars

\* new_state of a body with a fresh Geoid Earth state, called with every drawn
\* time, position and velocity
InitObject ==
    /\ raw \in [time : NewStateTimes, position : RawPositions,
                 velocity : RawVelocities]
    /\ built = None /\ v_bi_g = None /\ angles = None
    /\ cache = Cache(<<GeoidCacheSize>>)
    /\ lastOp = [op |-> "none", present |-> FALSE, result |-> None]
    /\ everInserted = {}
    /\ ascending = TRUE
    /\ EarthIdle /\ AlgIdle /\ SolverIdle /\ SimIdle

NextObject == NewState

SpecObject == InitObject /\ [][NextObject]_vars

\* a Simulator built from every drawn configuration, then run
InitSimulator ==
    /\ config \in Configs /\ sim_objects = <<>> /\ solvers = <<>>
    /\ pc = "configured" /\ jd_tt = 0 /\ jd_tt_start = 0 /\ time_max = <<>>
    /\ iterations = 0 /\ raised = None
    /\ cache = Cache(<<GeoidCacheSize>>)
    /\ lastOp = [op |-> "none", present |-> FALSE, result |-> None]
    /\ everInserted = {}
    /\ ascending = TRUE
    /\ EarthIdle /\ AlgIdle /\ SolverIdle /\ ObjIdle

NextSimulator ==
    \/ Construct
    \/ \E tm \in {<<>>} \cup {<<n>> : n \in 0..MaxTime} : RunEnter(tm)
    \/ RunIteration

SpecSimulator == InitSimulator /\ [][NextSimulator]_vars

\* the constructor and run, once called, go on until they return or raise
SpecSimulatorLive == SpecSimulator /\ WF_vars(NextSimulator)

(***************************************************************************)
(* Claims                                                                  *)
(***************************************************************************)
\* ---- C1 (SpecAlgebra) ----
\* C1: for every pair of vectors whose reference frames differ, a + b and
\* a - b raise the frame-mismatch RuntimeError and return no vector.
C1_FrameMismatchFails ==
    (ops \in {<<"add">>, <<"subtract">>}
        /\ args[1].reference_frame # args[2].reference_frame)
    => out = Raise("RuntimeError")

\* a subtraction of a Wind-frame vector and a Body-frame vector has raised
C1_Witness ==
    /\ ops = <<"subtract">>
    /\ args[1].reference_frame = "Wind" /\ args[2].reference_frame = "Body"
    /\ out = Raise("RuntimeError")

\* ---- C2 (SpecAlgebra) ----
\* C2: for vectors a, b of one reference frame, (a + b) - b is a vector with
\* a's data and with b's reference frame and coordinate system.
C2_SubtractUndoesAdd ==
    ops = <<"add", "subtract">>
    => /\ IsVector(out)
       /\ out.data = args[1].data
       /\ out.reference_frame = args[2].reference_frame
       /\ out.coordinate_system = args[2].coordinate_system

\* ---- C3 (SpecAlgebra) ----
\* C3: matrix @ vector fails whenever the vector's frame is not the matrix's
\* source frame, for Transformation and AngularVelocity; with matching frames
\* it returns the vector matrix.data . vector.data in the matrix's target frame.
C3_ApplyChecksFrame ==
    ops = <<"apply">>
    => IF args[2].reference_frame # args[1].reference_frame_from
       THEN IsExc(out)
       ELSE /\ IsVector(out)
            /\ out.data = np_matvec(args[1].data, args[2].data)
            /\ out.reference_frame = args[1].reference_frame_to

\* ---- C4 (SpecAlgebra) ----
\* C4: outer @ inner of two matrices of one variant is a matrix from
\* inner's source frame to outer's target frame with data outer.data . inner.data,
\* for every combination of frames.
C4_ComposeFrames ==
    (ops = <<"compose">> /\ args[1].kind = args[2].kind)
    => /\ IsMatrix(out)
       /\ out.kind = args[1].kind
       /\ out.reference_frame_from = args[2].reference_frame_from
       /\ out.reference_frame_to = args[1].reference_frame_to
       /\ out.data = np_matmat(args[1].data, args[2].data)

\* ---- C5 (SpecAlgebra) ----
\* C5: M.T has M's source and target frames swapped and M's data transposed,
\* and M.T.T has the frames and the data of M.
C5_TransposeInvolution ==
    /\ ops = <<"T">>
       => /\ out.kind = args[1].kind
          /\ out.reference_frame_from = args[1].reference_frame_to
          /\ out.reference_frame_to = args[1].reference_frame_from
          /\ \A i \in 1..Dim, j \in 1..Dim : out.data[i][j] = args[1].data[j][i]
    /\ ops = <<"T", "T">>
       => /\ out.reference_frame_from = args[1].reference_frame_from
          /\ out.reference_frame_to = args[1].reference_frame_to
          /\ out.data = args[1].data
          /\ out.kind = args[1].kind

\* a matrix between two different frames, with data that is not symmetric, has
\* been transposed twice
C5_Witness ==
    /\ ops = <<"T", "T">>
    /\ args[1].reference_frame_from # args[1].reference_frame_to
    /\ args[1].data[1][2] # args[1].data[2][1]
    /\ out = args[1]

\* ---- C6 (SpecCache) ----
\* C6: after any adds to a cache with a max_size the cache holds at most max_size
\* entries, every key an add evicts is below every key left in the cache (it was
\* the smallest held), and adding 1, 2, 3, 4, 5, 6 in this order with max_size = 5
\* leaves exactly the keys 2..6.
C6_BoundedSmallestEvicted ==
    /\ cache.max_size # <<>> => Cardinality(ResidentKeys) <= cache.max_size[1]
    /\ lastOp.op = "add"
       => /\ Cardinality(lastOp.result.evicted) <= 1
          /\ \A e \in lastOp.result.evicted : \A k \in ResidentKeys : e < k
          /\ \A e \in lastOp.result.evicted :
                e = lastOp.result.key \/ e \in everInserted
    /\ (cache.max_size = <<5>> /\ ascending /\ everInserted = 1..6)
       => ResidentKeys = 2..6

\* 1..6 have been added in ascending order to a cache of max_size 5, and the
\* last add evicted key 1
C6_Witness ==
    /\ cache.max_size = <<5>> /\ ascending /\ everInserted = 1..6
    /\ lastOp.op = "add" /\ lastOp.result.key = 6 /\ lastOp.result.evicted = {1}
    /\ ResidentKeys = 2..6

\* ---- C7 (SpecCache) ----
\* C7: add on a key that is present, key in cache, and cache[key] leave the
\* stored values, the keys and the eviction order as they were.
C7_ReadsAndRepeatsChangeNothing ==
    [][ ((lastOp'.op = "add" /\ lastOp'.present)
            \/ lastOp'.op \in {"contains", "get"})
        => (cache'.queue = cache.queue /\ cache'.ordering = cache.ordering) ]_vars

\* a key stored with one value has been added again with the other value
C7_Witness ==
    /\ lastOp.op = "add" /\ lastOp.present
    /\ cache.queue[lastOp.result.key] # lastOp.result.value
    /\ Len(cache.ordering) >= 2

\* ---- C8 (SpecEarth) ----
\* C8 as stated: the consecutive queries at one time make at most one provider
\* call between them and all return matrices of one pair.
C8_OneCallPerTime ==
    run.fns # {} => (run.calls <= 1 /\ Cardinality(run.stamps) = 1)

\* C8 as amended: when the time queried is in the cache after the query, the
\* consecutive queries at it made at most one provider call and all returned
\* matrices of the pair cached for it; the time is missing from the cache after
\* its own query only when the cache is full and the time is below every cached
\* key, and then every query at it calls the provider.
C8_OneCallUnlessBelowFullCache ==
    run.fns # {}
    => IF run.key \in ResidentKeys
       THEN /\ run.calls <= 1
            /\ run.stamps = {cache.queue[run.key][1].data.call}
            /\ lastQuery.answer \in {cache.queue[run.key][1], cache.queue[run.key][2]}
            /\ lastQuery.answer.kind = (IF lastQuery.fn = "transformation_matrix"
                                        THEN "Transformation" ELSE "AngularVelocity")
       ELSE /\ Cardinality(ResidentKeys) = GeoidCacheSize
            /\ \A k \in ResidentKeys : run.key < k
            /\ ~lastQuery.hit
            /\ run.many => run.calls >= 2

\* both queries have been made at one time, after a query at another time, with
\* one provider call, and the pair is cached
C8_Witness ==
    /\ run.many /\ run.fns = {"transformation_matrix", "angular_velocity"}
    /\ run.calls = 1 /\ Cardinality(run.stamps) = 1
    /\ run.key \in ResidentKeys
    /\ Cardinality(ResidentKeys) >= 2

\* ---- C9 (SpecSolver) ----
\* C9: SolverFixed.next_state makes one callback, functions_new_state(time + dt,
\* position, velocity) on the current position and velocity, and never the
\* acceleration function; the state frame returned has the position and velocity
\* data of the current one and the time advanced by dt; so a body stepped by it
\* keeps the position and velocity data it started with.
C9_FixedKeepsPositionVelocity ==
    solver.kind = "SolverFixed"
    => /\ ret # None
          => /\ calls = <<NewStateCall(state.time + time_step, state.s_bi_i,
                                       state.v_bi_i)>>
             /\ \A i \in 1..Len(calls) : calls[i].fn # "function_accelerations"
             /\ IsStateFrame(ret)
                => /\ ret.s_bi_i.data = state.s_bi_i.data
                   /\ ret.v_bi_i.data = state.v_bi_i.data
                   /\ ret.time = state.time + time_step
       /\ state.s_bi_i.data = initial.s_bi_i.data
       /\ state.v_bi_i.data = initial.v_bi_i.data
       /\ state.time = initial.time + steps * time_step

\* a moving body has been stepped by the fixed solver, and stepped again
C9_Witness ==
    /\ solver.kind = "SolverFixed" /\ steps >= 1 /\ IsStateFrame(ret)
    /\ state.v_bi_i.data # <<0, 0, 0>>
    /\ ret.time = initial.time + (steps + 1) * time_step

\* ---- C10 (SpecSolver) ----
\* C10: with an acceleration function that returns zero, every
\* SolverVelocityVerlet.next_state returns a state frame, and after n of them
\* the body is at initial position + initial velocity * (n * dt), with the
\* initial velocity, at initial time + n * dt.
C10_VerletStraightLine ==
    (solver.kind = "SolverVelocityVerlet"
        /\ solver.function_accelerations.law = "zero"
        /\ solver.functions_new_state = "returns")
    => /\ ret = None \/ IsStateFrame(ret)
       /\ IsStateFrame(ret)
          => /\ ret.s_bi_i.data = [i \in 1..Dim |-> state.s_bi_i.data[i]
                                       + state.v_bi_i.data[i] * time_step]
             /\ ret.v_bi_i.data = state.v_bi_i.data
             /\ ret.time = state.time + time_step
       /\ state.s_bi_i.data = [i \in 1..Dim |-> initial.s_bi_i.data[i]
                                   + initial.v_bi_i.data[i] * (steps * time_step)]
       /\ state.v_bi_i.data = initial.v_bi_i.data
       /\ state.time = initial.time + steps * time_step

\* ---- C11 (SpecSolver) ----
\* C11: SolverEuler.next_state calls the acceleration function once, on the
\* current state frame, to get a0, then makes one functions_new_state(t + dt,
\* p1, v1) call with v1 = v0 + a0 * dt and p1 = p0 + v1 * dt, and returns what
\* that call returns.
C11_EulerStep ==
    (solver.kind = "SolverEuler" /\ ret # None)
    => LET a0 == function_accelerations(solver.function_accelerations, state).data
           v1 == [i \in 1..Dim |-> state.v_bi_i.data[i] + a0[i] * time_step]
           p1 == [i \in 1..Dim |-> state.s_bi_i.data[i] + v1[i] * time_step]
       IN  /\ Len(calls) = 2
           /\ calls[1] = AccelCall(state)
           /\ calls[2].fn = "functions_new_state"
           /\ calls[2].time = state.time + time_step
           /\ calls[2].position.data = p1
           /\ calls[2].velocity.data = v1
           /\ ret = functions_new_state(solver,
                                        calls[2].time, calls[2].position,
                                        calls[2].velocity)

\* ---- C16 (SpecSolver) ----
\* C16: one SolverVelocityVerlet.next_state makes four callbacks in the order
\* function_accelerations(current), functions_new_state(t + dt, p1, v_half),
\* function_accelerations(mid), functions_new_state(t + dt, p1, v1), where mid
\* is what the first functions_new_state call returned; both functions_new_state
\* calls get the same time t + dt and the same position, and next_state returns
\* what the second one returns.
C16_VerletCallbackOrder ==
    (solver.kind = "SolverVelocityVerlet"
        /\ solver.functions_new_state = "returns" /\ ret # None)
    => /\ Len(calls) = 4
       /\ calls[1] = AccelCall(state)
       /\ calls[2].fn = "functions_new_state"
       /\ calls[3] = AccelCall(functions_new_state(solver,
                          calls[2].time, calls[2].position, calls[2].velocity))
       /\ calls[4].fn = "functions_new_state"
       /\ calls[2].time = state.time + time_step
       /\ calls[4].time = state.time + time_step
       /\ calls[4].position = calls[2].position
       /\ ret = functions_new_state(solver, calls[4].time,
                                    calls[4].position, calls[4].velocity)

\* ---- C17 (SpecCache) ----
\* the n largest elements of S (all of S when it has fewer than n)
C17_Largest(S, n) == {k \in S : Cardinality({j \in S : j > k}) < n}

\* C17: after any adds (keys in any order, repeats allowed) to a cache with
\* max_size = N the resident keys are exactly the N largest distinct keys ever
\* added, all of them when fewer than N were added; so a key added while it is
\* below every key of a full cache is not resident right after its own add.
C17_ResidentAreLargest ==
    cache.max_size # <<>>
    => /\ ResidentKeys = C17_Largest(everInserted, cache.max_size[1])
       /\ (lastOp.op = "add" /\ ~lastOp.present)
          => LET key    == lastOp.result.key
                 before == (ResidentKeys \cup lastOp.result.evicted) \ {key}
             IN  (Cardinality(before) = cache.max_size[1]
                    /\ \A k \in before : key < k)
                 => key \notin ResidentKeys

\* a key below every key of a full cache of max_size 3 has just been added, after
\* adds that were not in ascending order, and it is not resident
C17_Witness ==
    /\ cache.max_size = <<3>> /\ ~ascending
    /\ Cardinality(everInserted) >= 5
    /\ lastOp.op = "add" /\ ~lastOp.present
    /\ lastOp.result.evicted = {lastOp.result.key}
    /\ Cardinality(ResidentKeys) = 3
    /\ \A k \in ResidentKeys : lastOp.result.key < k

\* ---- C13 (SpecAngles) ----
\* C13 as stated: with no horizontal speed the flight-path angle is +90 degrees
\* for the velocity (0, 0, 5), -90 degrees for (0, 0, -5) and 0 for (0, 0, 0),
\* and the heading angle is 0 in the three cases.
C13_DownIsPlus90 ==
    (angles # None /\ v_bi_g.data[1] = 0 /\ v_bi_g.data[2] = 0
        /\ v_bi_g.data[3] \in {5, -5, 0})
    => /\ angles[1] = Deg(0)
       /\ v_bi_g.data[3] = 5  => angles[2] = Deg(90)
       /\ v_bi_g.data[3] = -5 => angles[2] = Deg(-90)
       /\ v_bi_g.data[3] = 0  => angles[2] = Deg(0)

\* C13, amended: with no horizontal speed the flight-path angle is -90 degrees
\* for a downward velocity such as (0, 0, 5), +90 degrees for an upward one such
\* as (0, 0, -5) and 0 for (0, 0, 0), which is the limit of atan2(-v_down,
\* horizontal speed) that the other velocities get; the heading angle is 0.
C13_DownIsMinus90 ==
    angles # None
    => /\ (v_bi_g.data[1] = 0 /\ v_bi_g.data[2] = 0)
          => /\ angles[1] = Deg(0)
             /\ v_bi_g.data[3] > 0 => angles[2] = Deg(-90)
             /\ v_bi_g.data[3] < 0 => angles[2] = Deg(90)
             /\ v_bi_g.data[3] = 0 => angles[2] = Deg(0)
       /\ (v_bi_g.data[1] # 0 \/ v_bi_g.data[2] # 0)
          => angles[2] = np_atan2(Real(-v_bi_g.data[3]),
                                  np_sqrt(v_bi_g.data[1] * v_bi_g.data[1]
                                          + v_bi_g.data[2] * v_bi_g.data[2]))

\* the angles of the velocity (0, 0, 5) have been computed
C13_Witness ==
    /\ angles # None /\ v_bi_g.data = <<0, 0, 5>>
    /\ angles = <<Deg(0), Deg(-90)>>

\* ---- C12 (SpecObject) ----
\* frames new_state can resolve to the inertial frame
C12_Supported == {"EarthCenteredInertial", "EarthCenteredEarthFixed"}

\* C12: new_state raises the unsupported-reference-frame error, and returns no
\* state frame, when the frame of the position is neither inertial nor
\* Earth-fixed, and when the frame of the velocity is neither; a position and
\* a velocity tagged inertial are taken as they are, data unchanged.
C12_UnsupportedFrameFails ==
    built # None
    => /\ raw.position.reference_frame \notin C12_Supported
          => built.ret = UnsupportedFrame /\ built.line = 53
       /\ (raw.position.reference_frame \in C12_Supported
            /\ raw.velocity.reference_frame \notin C12_Supported)
          => built.ret = UnsupportedFrame /\ built.line = 54
       /\ raw.position.reference_frame = "EarthCenteredInertial"
          => /\ built.position = built.entered[1]
             /\ raw.position.coordinate_system = "Cartesian"
                => built.position.data = raw.position.data
       /\ (raw.position.reference_frame \in C12_Supported
            /\ raw.velocity.reference_frame = "EarthCenteredInertial")
          => /\ built.velocity = built.entered[2]
             /\ raw.velocity.coordinate_system = "Cartesian"
                => built.velocity.data = raw.velocity.data
       /\ built.ret = UnsupportedFrame
          => (raw.position.reference_frame \notin C12_Supported
              \/ raw.velocity.reference_frame \notin C12_Supported)

\* new_state took an inertial position off the origin as it is and raised the
\* unsupported-frame error for a velocity tagged with the Body frame
C12_Witness ==
    /\ built # None
    /\ raw.position.reference_frame = "EarthCenteredInertial"
    /\ raw.position.coordinate_system = "Cartesian"
    /\ raw.position.data # <<0, 0, 0>>
    /\ raw.velocity.reference_frame = "Body"
    /\ built.position.data = raw.position.data
    /\ built.ret = UnsupportedFrame /\ built.line = 54

\* ---- C15 (SpecObject) ----
\* C15: for every position and velocity tagged inertial or Earth-fixed, in any
\* combination, new_state raises no frame-mismatch error and returns a state
\* frame: the Earth-rotation term omega_ei_i @ s_bi_i and the inertial velocity
\* are subtracted as two vectors of one frame.
C15_NewStateCompletes ==
    (built # None
        /\ raw.position.reference_frame \in C12_Supported
        /\ raw.velocity.reference_frame \in C12_Supported)
    => /\ IsStateFrame(built.ret)
       /\ built.line = 0
       /\ built.ret.s_bi_i = built.position
       /\ built.ret.v_bi_i = built.velocity

\* ---- C14 (SpecSimulatorLive) ----
\* run has left its loop: the clock has run for time_max or more and had not
\* before the last iteration, and every body of the configuration holds the
\* state frame of its last step, one step per iteration
C14_Stopped ==
    /\ pc = "returned"
    /\ jd_tt - jd_tt_start >= time_max[1]
    /\ iterations >= 1
    /\ iterations > 1 => jd_tt - config.time_step - jd_tt_start < time_max[1]
    /\ \A i \in 1..Len(config.sim_objects) :
          /\ i \in DOMAIN sim_objects
          /\ "time" \in DOMAIN sim_objects[i]
          /\ sim_objects[i].time = jd_tt_start + iterations * config.time_step

\* C14: for every configuration (time_step > 0) the Simulator is built and
\* run(time_max), time_max finite, terminates: each iteration steps every body
\* once with config.time_step and installs the result, then advances the
\* clock, and the loop ends after the first iteration that brings the elapsed
\* time to time_max.
C14_RunTerminates ==
    <>(C14_Stopped \/ (pc \in {"running", "run_raised"} /\ time_max = <<>>))

\* ---- C18 (SpecSimulator) ----
\* C18: the Simulator is built with a state frame for every body, and at the
\* end of every iteration of run every body's state frame carries the time of
\* the clock, start + k * time_step after k iterations; when a next_state
\* fails the clock has not advanced for that iteration.
C18_BodiesCarryClock ==
    /\ pc # "init_raised"
    /\ pc \in {"running", "returned"}
       => /\ jd_tt = jd_tt_start + iterations * config.time_step
          /\ \A i \in 1..Len(config.sim_objects) :
                /\ i \in DOMAIN sim_objects
                /\ "time" \in DOMAIN sim_objects[i]
                /\ sim_objects[i].time = jd_tt
    /\ (pc = "run_raised" /\ time_max # <<>>)
       => jd_tt = jd_tt_start + iterations * config.time_step

====
